---- MODULE Spec2Model ----
(***************************************************************************)
(* nestjs-drizzle: the three DrizzleService classes (PostgreSQL, MySQL,    *)
(* SQLite/Turso) and the DrizzleModule.forRoot registration functions.     *)
(*                                                                         *)
(* The services forward every call to the ORM object held in service.db.   *)
(* The ORM object is modelled as the recording object the repository's     *)
(* tests substitute for it: every method called on it (or on a builder it  *)
(* returned) is appended to a call log together with its receiver, its     *)
(* argument and what it produced, and it may fail at a chosen call.        *)
(***************************************************************************)
EXTENDS Integers, Sequences, FiniteSets, TLC

VARIABLES
  dialect,   \* which DrizzleService class the service is an instance of
  db,        \* the ORM object held in the service's `db` field
  store,     \* the rows of the database behind the ORM objects
  op,        \* the wrapper call made last: its name, dialect and arguments
  calls,     \* the ORM calls the last wrapper call made, in order
  outcome,   \* what the last wrapper call produced: a return value or a throw
  cbCalls,   \* the arguments the transaction callback was invoked with
  pre,       \* db and store as they were when the last wrapper call started
  reg,       \* the forRoot call made last: dialect, options, environment
  loaded,    \* the driver packages the last forRoot call required
  clients,   \* the pools / clients / connections the last forRoot call created
  modOut     \* what the last forRoot call produced: a module or a throw

svcVars == <<dialect, db, store, op, calls, outcome, cbCalls, pre>>
modVars == <<reg, loaded, clients, modOut>>
vars == <<dialect, db, store, op, calls, outcome, cbCalls, pre, reg, loaded, clients, modOut>>

----------------------------------------------------------------------------
(* Bounds *)

MaxRows == 2      \* longest array given to insertMany
MaxWrites == 2    \* most writes a transaction callback makes
MaxVal == 1       \* stored values are 0..MaxVal

----------------------------------------------------------------------------
(* Values *)

Dialects == {"pg", "mysql", "sqlite"}
DbIds == {"db1", "db2"}
Keys == {"k1"}
Vals == 0 .. MaxVal
Errors == {"E1", "E2"}

Undef == [k |-> "undefined"]
NoErr == [k |-> "none"]
Err(e) == [k |-> "error", e |-> e]
Val(n) == [k |-> "val", v |-> n]
Table(t) == [k |-> "table", t |-> t]
Fields(f) == [k |-> "fields", f |-> f]
Row(n) == [k |-> "row", id |-> n]
Rows(s) == [k |-> "rows", r |-> s]
Sql(q) == [k |-> "sql", q |-> q]
Promise(id, state, v) == [k |-> "promise", v |-> v, id |-> id, state |-> state]

\* An ORM object: the database object itself (empty chain) or a builder
\* obtained from it by the chain of method calls.
Obj(id, chain) == [db |-> id, k |-> "obj", chain |-> chain]
Db(id) == Obj(id, <<>>)
\* the query property of an ORM object: an object of its own, one per ORM object
QueryOf(this) == [db |-> this.db, k |-> "query", id |-> "own"]
Tx(recv) == [db |-> recv.db, k |-> "tx"]

Returned(v) == [k |-> "return", v |-> v]
Thrown(e) == [k |-> "throw", err |-> e]

TableNames == {"users", "profiles"}
ColumnKeys == {"id", "username", "password", "userId"}

\* users.schema.ts: the columns of each table, keyed by property name
\* (cut down to the columns the wrappers' behaviour can depend on).
Column(t, c) == [k |-> "col", t |-> t, c |-> c]
TableKeys(t) == IF t = "users" THEN {"id", "username", "password"} ELSE {"id", "userId"}
getTableColumns(table) == [c \in TableKeys(table.t) |-> Column(table.t, c)]

Restrict(f, S) == [x \in S |-> f[x]]

\* Object.keys(select || {})
ObjectKeys(select) == IF select = Undef THEN {} ELSE DOMAIN select.f

\* Promise.resolve(x): x itself when it is a promise, else a new fulfilled promise
PromiseResolve(x) ==
  IF x.k = "promise" THEN x ELSE Promise("svc", "fulfilled", x)

RECURSIVE ApplyWrites(_, _)
ApplyWrites(s, ws) ==
  IF ws = <<>> THEN s
  ELSE ApplyWrites([s EXCEPT ![Head(ws).key] = Head(ws).val], Tail(ws))

----------------------------------------------------------------------------
(* The ORM object, as the tests' recording object *)

\* The run of one wrapper call: the service's db field, the ORM calls made so far, the exception in
\* flight (NoErr when none), the value of the last expression, the database
\* rows, the callback invocations, and the environment's choices.
Start(this, s, env) ==
  [db |-> this, store |-> s, calls |-> <<>>, cbCalls |-> <<>>, val |-> Undef,
   env |-> env, thrown |-> NoErr]

Fails(st) == st.env.failAt = Len(st.calls) + 1

Logged(st, recv, m, arg, out) ==
  [st EXCEPT !.calls = Append(@, [m |-> m, arg |-> arg, out |-> out, on |-> recv]),
             !.thrown = IF out.k = "throw" THEN out.err ELSE NoErr,
             !.val = IF out.k = "throw" THEN Undef ELSE out.v]

\* select / from / insert / values / update / set / delete: a builder method
\* returns the builder extended by the call, or throws.
OrmCall(st, recv, m, arg) ==
  IF st.thrown # NoErr THEN st
  ELSE Logged(st, recv, m, arg,
         IF Fails(st) THEN Thrown(Err(st.env.err))
         ELSE Returned(Obj(recv.db, Append(recv.chain, [m |-> m, arg |-> arg]))))

\* execute / run: a promise (fulfilled or rejected), a plain value from a
\* synchronous driver, or a throw.
OrmExecute(st, recv, m, query) ==
  IF st.thrown # NoErr THEN st
  ELSE Logged(st, recv, m, query,
         IF Fails(st) THEN Thrown(Err(st.env.err))
         ELSE IF st.env.mode = "sync" THEN Returned(Val(st.env.val))
         ELSE IF st.env.mode = "rejected"
              THEN Returned(Promise("orm", "rejected", Err(st.env.err)))
         ELSE Returned(Promise("orm", "fulfilled", Val(st.env.val))))

\* transaction: the ORM invokes the callback once with its transaction
\* handle; the callback's writes are kept when it returns and undone when it
\* throws. An asynchronous ORM answers with a promise, a synchronous one
\* (better-sqlite3) with the callback's value or its exception.
OrmTransaction(st, recv, cb) ==
  IF st.thrown # NoErr THEN st
  ELSE LET async == st.env.mode # "sync"
           fail(e) == IF async THEN Returned(Promise("orm", "rejected", e)) ELSE Thrown(e)
           done(v) == IF async THEN Returned(Promise("orm", "fulfilled", v)) ELSE Returned(v)
       IN IF Fails(st) THEN Logged(st, recv, "transaction", cb, fail(Err(st.env.err)))
          ELSE LET ran == [st EXCEPT !.cbCalls = Append(@, Tx(recv))]
               IN IF cb.end = "throw"
                  THEN Logged(ran, recv, "transaction", cb, fail(cb.v))
                  ELSE Logged([ran EXCEPT !.store = ApplyWrites(@, cb.writes)],
                              recv, "transaction", cb, done(cb.v))

\* `return e`: the wrapper's value becomes v unless an exception is in flight
Ret(st, v) == IF st.thrown # NoErr THEN st ELSE [st EXCEPT !.val = v]

Outcome(st) == IF st.thrown # NoErr THEN Thrown(st.thrown) ELSE Returned(st.val)

----------------------------------------------------------------------------
(* DrizzleService, PostgreSQL *)

PgGet(st, from, select) ==
  LET s1 == OrmCall(st, st.db, "select", select)
  IN OrmCall(s1, s1.val, "from", from)

PgGetWithout(st, table, select) ==
  LET columns == getTableColumns(table)
      resultColumns ==
        Fields(Restrict(columns, {key \in DOMAIN columns : key \notin ObjectKeys(select)}))
  IN PgGet(st, table, resultColumns)

PgUpdate(st, table, set) ==
  LET s1 == OrmCall(st, st.db, "update", table)
  IN OrmCall(s1, s1.val, "set", set)

PgInsert(st, table, set) ==
  LET s1 == OrmCall(st, st.db, "insert", table)
  IN OrmCall(s1, s1.val, "values", set)

\* insertMany that issues one insert per element
RECURSIVE InsertEach(_, _, _)
InsertEach(st, table, rows) ==
  IF rows = <<>> THEN st
  ELSE LET s1 == OrmCall(st, st.db, "insert", table)
       IN InsertEach(OrmCall(s1, s1.val, "values", Head(rows)), table, Tail(rows))

PgInsertManyOneByOne(st, table, values) == InsertEach(st, table, values.r)

PgInsertMany(st, table, values) ==
  LET s1 == OrmCall(st, st.db, "insert", table)
  IN OrmCall(s1, s1.val, "values", values)

PgDelete(st, table) == OrmCall(st, st.db, "delete", table)

PgExecute(st, query) == OrmExecute(st, st.db, "execute", query)

\* transaction that runs the callback on this.db itself, outside any
\* ORM transaction
PgTransactionDirect(st, callback) ==
  LET ran == [st EXCEPT !.cbCalls = Append(@, st.db),
                        !.store = ApplyWrites(@, callback.writes)]
  IN Ret(ran, Promise("svc", IF callback.end = "throw" THEN "rejected" ELSE "fulfilled",
                      callback.v))

PgTransaction(st, callback) == OrmTransaction(st, st.db, callback)

\* get query() { return this.db.query }
PgQuery(st) == Ret(st, QueryOf(st.db))

----------------------------------------------------------------------------
(* DrizzleService, MySQL *)

\* get that forgets its select argument
MySqlGetSelectsAll(st, from, select) ==
  LET s1 == OrmCall(st, st.db, "select", Undef)
  IN OrmCall(s1, s1.val, "from", from)

MySqlGet(st, from, select) ==
  LET s1 == OrmCall(st, st.db, "select", select)
  IN OrmCall(s1, s1.val, "from", from)

\* getWithout whose filter lost its negation
MySqlGetWithoutKeeps(st, table, select) ==
  LET columns == getTableColumns(table)
      resultColumns ==
        IF select # Undef
        THEN Fields(Restrict(columns,
                 {key \in DOMAIN columns : key \in ObjectKeys(select)}))
        ELSE Fields(columns)
  IN MySqlGet(st, table, resultColumns)

MySqlGetWithout(st, table, select) ==
  LET columns == getTableColumns(table)
      resultColumns ==
        IF select # Undef
        THEN Fields(Restrict(columns,
                 {key \in DOMAIN columns : key \notin ObjectKeys(select)}))
        ELSE Fields(columns)
  IN MySqlGet(st, table, resultColumns)

MySqlUpdate(st, table, set) ==
  LET s1 == OrmCall(st, st.db, "update", table)
  IN OrmCall(s1, s1.val, "set", set)

MySqlInsert(st, table, set) ==
  LET s1 == OrmCall(st, st.db, "insert", table)
  IN OrmCall(s1, s1.val, "values", set)

MySqlInsertMany(st, table, values) ==
  LET s1 == OrmCall(st, st.db, "insert", table)
  IN OrmCall(s1, s1.val, "values", values)

MySqlDelete(st, table) == OrmCall(st, st.db, "delete", table)

\* execute that tries once more when the first attempt fails
MySqlExecuteRetries(st, query) ==
  LET s1 == OrmExecute(st, st.db, "execute", query)
      failed == s1.thrown # NoErr \/ s1.val.state = "rejected"
  IN IF failed THEN OrmExecute([s1 EXCEPT !.thrown = NoErr], st.db, "execute", query)
     ELSE s1

MySqlExecute(st, query) == OrmExecute(st, st.db, "execute", query)

MySqlTransaction(st, callback) == OrmTransaction(st, st.db, callback)

\* a query getter that hands out a copy of the query object
MySqlQueryCopies(st) == Ret(st, [QueryOf(st.db) EXCEPT !.id = "copy"])

\* get query() { return this.db.query }
MySqlQuery(st) == Ret(st, QueryOf(st.db))

----------------------------------------------------------------------------
(* DrizzleService, SQLite / Turso *)

SqliteGet(st, from, select) ==
  LET s1 == OrmCall(st, st.db, "select", select)
  IN OrmCall(s1, s1.val, "from", from)

SqliteGetWithout(st, table, select) ==
  LET columns == getTableColumns(table)
      resultColumns ==
        Fields(Restrict(columns, {key \in DOMAIN columns : key \notin ObjectKeys(select)}))
  IN SqliteGet(st, table, resultColumns)

\* update that returns the builder before set is applied
SqliteUpdateWithoutSet(st, table, set) == OrmCall(st, st.db, "update", table)

SqliteUpdate(st, table, set) ==
  LET s1 == OrmCall(st, st.db, "update", table)
  IN OrmCall(s1, s1.val, "set", set)

SqliteInsert(st, table, set) ==
  LET s1 == OrmCall(st, st.db, "insert", table)
  IN OrmCall(s1, s1.val, "values", set)

SqliteInsertMany(st, table, values) ==
  LET s1 == OrmCall(st, st.db, "insert", table)
  IN OrmCall(s1, s1.val, "values", values)

SqliteDelete(st, table) == OrmCall(st, st.db, "delete", table)

\* execute that calls db.execute, as the other dialects do
SqliteExecuteViaExecute(st, query) ==
  LET s1 == OrmExecute(st, st.db, "execute", query)
  IN Ret(s1, PromiseResolve(s1.val))

\* const result = this.db.run(query); return Promise.resolve(result)
SqliteExecute(st, query) ==
  LET s1 == OrmExecute(st, st.db, "run", query)
  IN Ret(s1, PromiseResolve(s1.val))

\* transaction that returns what db.transaction returned, unwrapped
SqliteTransactionUnwrapped(st, callback) == OrmTransaction(st, st.db, callback)

\* return Promise.resolve(this.db.transaction(callback))
SqliteTransaction(st, callback) ==
  LET s1 == OrmTransaction(st, st.db, callback)
  IN Ret(s1, PromiseResolve(s1.val))

\* get query() { return this.db.query }
SqliteQuery(st) == Ret(st, QueryOf(st.db))

----------------------------------------------------------------------------
(* The wrapper of dialect d *)

get(d, st, from, select) ==
  CASE d = "pg" -> PgGet(st, from, select)
    [] d = "mysql" -> MySqlGet(st, from, select)
    [] d = "sqlite" -> SqliteGet(st, from, select)

getWithout(d, st, table, select) ==
  CASE d = "pg" -> PgGetWithout(st, table, select)
    [] d = "mysql" -> MySqlGetWithout(st, table, select)
    [] d = "sqlite" -> SqliteGetWithout(st, table, select)

update(d, st, table, set) ==
  CASE d = "pg" -> PgUpdate(st, table, set)
    [] d = "mysql" -> MySqlUpdate(st, table, set)
    [] d = "sqlite" -> SqliteUpdate(st, table, set)

insert(d, st, table, set) ==
  CASE d = "pg" -> PgInsert(st, table, set)
    [] d = "mysql" -> MySqlInsert(st, table, set)
    [] d = "sqlite" -> SqliteInsert(st, table, set)

insertMany(d, st, table, values) ==
  CASE d = "pg" -> PgInsertMany(st, table, values)
    [] d = "mysql" -> MySqlInsertMany(st, table, values)
    [] d = "sqlite" -> SqliteInsertMany(st, table, values)

delete(d, st, table) ==
  CASE d = "pg" -> PgDelete(st, table)
    [] d = "mysql" -> MySqlDelete(st, table)
    [] d = "sqlite" -> SqliteDelete(st, table)

execute(d, st, query) ==
  CASE d = "pg" -> PgExecute(st, query)
    [] d = "mysql" -> MySqlExecute(st, query)
    [] d = "sqlite" -> SqliteExecute(st, query)

transaction(d, st, callback) ==
  CASE d = "pg" -> PgTransaction(st, callback)
    [] d = "mysql" -> MySqlTransaction(st, callback)
    [] d = "sqlite" -> SqliteTransaction(st, callback)

getQuery(d, st) ==
  CASE d = "pg" -> PgQuery(st)
    [] d = "mysql" -> MySqlQuery(st)
    [] d = "sqlite" -> SqliteQuery(st)

----------------------------------------------------------------------------
(* DrizzleModule.forRoot: strings, environment, driver packages *)

Str(x) == [k |-> "str", s |-> x]

Bool(b) == [k |-> "bool", b |-> b]

\* JavaScript truthiness of an optional string, boolean or option object
Falsy(x) == x = Undef \/ x = Str("") \/ x = Bool(FALSE)

\* a || b taking its right operand whenever that one is set
OrPrefersSecond(a, b) == IF Falsy(b) THEN a ELSE b

\* a || b
Or(a, b) == IF Falsy(a) THEN b ELSE a

MsgConnectionRequired ==
  "Database connection string is required. Provide it via options or DATABASE_URL environment variable."

MsgUrlRequired ==
  "Database URL is required. Provide it via options or DATABASE_URL environment variable."

MsgTursoTokenRequired ==
  "Turso auth token is required. Provide it via options or TURSO_AUTH_TOKEN environment variable."

\* The run of one forRoot call: the packages required so far, the clients
\* created so far, the messages given to logger.error, the exception in
\* flight and the value of the last expression.
MStart(env) ==
  [loaded |-> {}, clients |-> <<>>, val |-> Undef, env |-> env,
   thrown |-> NoErr, logs |-> <<>>]

MThrow(st, e) == IF st.thrown # NoErr THEN st ELSE [st EXCEPT !.thrown = e, !.val = Undef]

\* require(p): loads the package, or throws when it is not installed
Require(st, p) ==
  IF st.thrown # NoErr THEN st
  ELSE IF p = st.env.missing
       THEN [st EXCEPT !.thrown = [k |-> "error", e |-> "Cannot find module", pkg |-> p]]
       ELSE [st EXCEPT !.loaded = @ \cup {p}]

\* a driver constructor (new Pool, neon, createPool, connect, createConnection)
Create(st, kind, arg) ==
  IF st.thrown # NoErr THEN st
  ELSE [st EXCEPT !.clients = Append(@, [arg |-> arg, kind |-> kind]),
                  !.val = [k |-> "client", arg |-> arg, kind |-> kind]]

\* catch (error) { this.logger.error(msg); throw error }
CatchLogRethrow(st, msg) ==
  IF st.thrown = NoErr THEN st ELSE [st EXCEPT !.logs = Append(@, msg)]

\* catch (error) { throw new Error(`Failed to load <pkg>. Make sure it's
\* installed: ${error.message}`) }, with a message that leaves the package out
CatchWrapAnonymous(st, pkg) ==
  IF st.thrown = NoErr THEN st
  ELSE [st EXCEPT !.thrown = [k |-> "error", e |-> "Failed to load", cause |-> Undef]]

\* catch (error) { throw new Error(`Failed to load <pkg>. Make sure it's
\* installed: ${error.message}`) }
CatchWrap(st, pkg) ==
  IF st.thrown = NoErr THEN st
  ELSE [st EXCEPT !.thrown = [k |-> "error", e |-> "Failed to load. Make sure it's installed",
                              pkg |-> pkg, cause |-> st.thrown]]

createModule(client) == [k |-> "module", client |-> client, exports |-> "DrizzleService",
                         global |-> TRUE]

MOutcome(st) == IF st.thrown # NoErr THEN Thrown(st.thrown) ELSE Returned(st.val)

----------------------------------------------------------------------------
(* DrizzleModule, PostgreSQL *)

\* databaseWithDefault that tests the option against undefined only
PgDatabaseWithDefaultUndefinedOnly(st, connectionString) ==
  IF connectionString = Undef /\ Falsy(st.env.DATABASE_URL)
  THEN MThrow(st, Err(MsgConnectionRequired))
  ELSE Ret(st, Or(connectionString, st.env.DATABASE_URL))

PgDatabaseWithDefault(st, connectionString) ==
  IF Falsy(connectionString) /\ Falsy(st.env.DATABASE_URL)
  THEN MThrow(st, Err(MsgConnectionRequired))
  ELSE Ret(st, Or(connectionString, st.env.DATABASE_URL))

PgForRoot(options, env) ==
  LET driver == IF options.driver = Undef THEN Str("pool") ELSE options.driver
      s1 == PgDatabaseWithDefault(MStart(env), options.connectionString)
      dbUrl == s1.val
      neon ==
        LET a == Require(s1, "@neondatabase/serverless")
            b == Require(a, "drizzle-orm/neon-serverless")
            c == Create(b, "neon", [url |-> dbUrl, opts |-> options.neon])
        IN CatchLogRethrow(c, "Failed to load Neon dependencies. Make sure @neondatabase/serverless and drizzle-orm are installed")
      vercel ==
        LET a == Require(s1, "@vercel/postgres")
            b == Require(a, "drizzle-orm/vercel-postgres")
            c == Create(b, "vercel.createPool",
                        [connectionString |-> dbUrl, opts |-> options.vercel])
        IN CatchLogRethrow(c, "Failed to load Vercel dependencies. Make sure @vercel/postgres and drizzle-orm are installed")
      standard == Create(s1, "pg.Pool", [connectionString |-> dbUrl, rest |-> options.connection])
      made == IF s1.thrown # NoErr THEN s1
              ELSE IF driver = Str("neon") THEN neon
              ELSE IF driver = Str("vercel") THEN vercel
              ELSE standard
  IN CatchLogRethrow(Ret(made, createModule(made.val)),
                     "Failed to establish database connection")

----------------------------------------------------------------------------
(* DrizzleModule, MySQL *)

\* databaseWithDefault without its check
MySqlDatabaseWithDefaultUnchecked(st, connectionString) ==
  Ret(st, Or(connectionString, st.env.DATABASE_URL))

MySqlDatabaseWithDefault(st, connectionString) ==
  IF Falsy(connectionString) /\ Falsy(st.env.DATABASE_URL)
  THEN MThrow(st, Err(MsgConnectionRequired))
  ELSE Ret(st, Or(connectionString, st.env.DATABASE_URL))

\* forRoot looking at options.connection before options.pool
MySqlForRootConnectionFirst(options, env) ==
  LET driver == IF options.driver = Undef THEN Str("mysql") ELSE options.driver
      connectionString == options.connectionString
      s0 == MStart(env)
      planetscale ==
        LET a == Require(s0, "@planetscale/database")
            b == Require(a, "drizzle-orm/planetscale-serverless")
            url == Or(connectionString, env.DATABASE_URL)
            c == Create(b, "planetscale.connect", [url |-> url, opts |-> options.planetscale])
        IN CatchLogRethrow(Ret(c, createModule(c.val)),
             "Failed to load PlanetScale dependencies. Make sure @planetscale/database and drizzle-orm are installed")
      pool == Create(s0, "mysql.createPool", options.pool)
      connection ==
        IF ~Falsy(options.connection)
        THEN Create(s0, "mysql.createConnection", options.connection)
        ELSE LET u == MySqlDatabaseWithDefault(s0, connectionString)
             IN Create(u, "mysql.createConnection", [uri |-> u.val])
      standard ==
        LET client == IF ~Falsy(options.connection) \/ Falsy(options.pool)
                      THEN connection ELSE pool
        IN Ret(client, createModule(client.val))
      made == IF driver = Str("planetscale") THEN planetscale ELSE standard
  IN CatchLogRethrow(made, "Failed to create MySQL connection")

MySqlForRoot(options, env) ==
  LET driver == IF options.driver = Undef THEN Str("mysql") ELSE options.driver
      connectionString == options.connectionString
      s0 == MStart(env)
      planetscale ==
        LET a == Require(s0, "@planetscale/database")
            b == Require(a, "drizzle-orm/planetscale-serverless")
            url == Or(connectionString, env.DATABASE_URL)
            c == Create(b, "planetscale.connect", [url |-> url, opts |-> options.planetscale])
        IN CatchLogRethrow(Ret(c, createModule(c.val)),
             "Failed to load PlanetScale dependencies. Make sure @planetscale/database and drizzle-orm are installed")
      pool == Create(s0, "mysql.createPool", options.pool)
      connection ==
        IF ~Falsy(options.connection)
        THEN Create(s0, "mysql.createConnection", options.connection)
        ELSE LET u == MySqlDatabaseWithDefault(s0, connectionString)
             IN Create(u, "mysql.createConnection", [uri |-> u.val])
      standard ==
        LET client == IF ~Falsy(options.pool) THEN pool ELSE connection
        IN Ret(client, createModule(client.val))
      made == IF driver = Str("planetscale") THEN planetscale ELSE standard
  IN CatchLogRethrow(made, "Failed to create MySQL connection")

----------------------------------------------------------------------------
(* DrizzleModule, SQLite and Turso *)

getDefaultUrl(st) ==
  IF Falsy(st.env.DATABASE_URL)
  THEN MThrow(st, Err(MsgUrlRequired))
  ELSE Ret(st, st.env.DATABASE_URL)

\* the turso branch taking TURSO_AUTH_TOKEN before options.authToken
TursoClientEnvTokenFirst(st, options, dbUrl) ==
  IF Falsy(options.authToken) /\ Falsy(st.env.TURSO_AUTH_TOKEN)
  THEN MThrow(st, Err(MsgTursoTokenRequired))
  ELSE LET a == Require(st, "@libsql/client")
           b == Create(a, "libsql.createClient",
                       [url |-> dbUrl,
                        opts |-> options.libsqlOptions,
                        authToken |-> Or(st.env.TURSO_AUTH_TOKEN, options.authToken)])
       IN CatchWrap(b, "@libsql/client")

\* the turso branch of forRoot
TursoClient(st, options, dbUrl) ==
  IF Falsy(options.authToken) /\ Falsy(st.env.TURSO_AUTH_TOKEN)
  THEN MThrow(st, Err(MsgTursoTokenRequired))
  ELSE LET a == Require(st, "@libsql/client")
           b == Create(a, "libsql.createClient",
                       [url |-> dbUrl,
                        opts |-> options.libsqlOptions,
                        authToken |-> Or(options.authToken, st.env.TURSO_AUTH_TOKEN)])
       IN CatchWrap(b, "@libsql/client")

\* the sqlite branch of forRoot
SqliteClient(st, options, dbUrl) ==
  LET a == Require(st, "better-sqlite3")
      b == Create(a, "BetterSQLite3",
                  IF ~Falsy(options.memory) THEN Str(":memory:") ELSE dbUrl)
  IN CatchWrap(b, "better-sqlite3")

SqliteForRoot(options, env) ==
  LET driver == IF options.driver = Undef THEN Str("sqlite") ELSE options.driver
      s0 == MStart(env)
      s1 == IF Falsy(options.url) THEN getDefaultUrl(s0) ELSE Ret(s0, options.url)
      dbUrl == s1.val
      made == IF s1.thrown # NoErr THEN s1
              ELSE IF driver = Str("turso") THEN TursoClient(s1, options, dbUrl)
              ELSE SqliteClient(s1, options, dbUrl)
  IN CatchLogRethrow(Ret(made, createModule(made.val)),
                     "Failed to create database connection")

----------------------------------------------------------------------------
(* index.ts: the SQL expression helpers *)

StringChunk(x) == [k |-> "text", s |-> x]

\* the chunks of sql`...`: the literal strings with the interpolated values
\* between them
RECURSIVE Interleave(_, _)
Interleave(strings, values) ==
  IF values = <<>> THEN <<StringChunk(Head(strings))>>
  ELSE <<StringChunk(Head(strings)), Head(values)>>
         \o Interleave(Tail(strings), Tail(values))

\* sql`strings[1]${values[1]}strings[2]...`
SqlTemplate(strings, values) == [k |-> "sql", chunks |-> Interleave(strings, values)]

\* sql.raw(text)
SqlRaw(text) == [k |-> "sql", chunks |-> <<StringChunk(text)>>]

\* value: number = 1
DefaultOne(value) == IF value = Undef THEN Val(1) ELSE value

PgIncrement(column, value) ==
  SqlTemplate(<<"", " + ", "">>, <<column, DefaultOne(value)>>)

PgDecrement(column, value) ==
  SqlTemplate(<<"", " - ", "">>, <<column, DefaultOne(value)>>)

PgWhereIf(condition, clause) == IF ~Falsy(condition) THEN clause ELSE Undef

PgExtract(part, date) ==
  SqlTemplate(<<"extract(", " from ", ")">>, <<SqlRaw(part), date>>)

MySqlIncrement(column, value) ==
  SqlTemplate(<<"", " + ", "">>, <<column, DefaultOne(value)>>)

\* decrement whose amount defaults to nothing
MySqlDecrementDefaultZero(column, value) ==
  SqlTemplate(<<"", " - ", "">>, <<column, IF value = Undef THEN Val(0) ELSE value>>)

MySqlDecrement(column, value) ==
  SqlTemplate(<<"", " - ", "">>, <<column, DefaultOne(value)>>)

MySqlWhereIf(condition, clause) == IF ~Falsy(condition) THEN clause ELSE Undef

\* extract that passes the part through as PostgreSQL's does
MySqlExtractUnmapped(part, date) ==
  SqlTemplate(<<"EXTRACT(", " FROM ", ")">>, <<SqlRaw(part), date>>)

MySqlExtract(part, date) ==
  LET partMap == [year |-> "YEAR", month |-> "MONTH", day |-> "DAY",
                  hour |-> "HOUR", minute |-> "MINUTE", second |-> "SECOND"]
  IN SqlTemplate(<<"EXTRACT(", " FROM ", ")">>, <<SqlRaw(partMap[part]), date>>)

SqliteIncrement(column, value) ==
  SqlTemplate(<<"", " + ", "">>, <<column, DefaultOne(value)>>)

SqliteDecrement(column, value) ==
  SqlTemplate(<<"", " - ", "">>, <<column, DefaultOne(value)>>)

\* whereIf that wraps the clause in a fragment of its own
SqliteWhereIfRebuilds(condition, clause) ==
  IF ~Falsy(condition) THEN SqlTemplate(<<"", "">>, <<clause>>) ELSE Undef

SqliteWhereIf(condition, clause) == IF ~Falsy(condition) THEN clause ELSE Undef

SqliteExtract(part, date) ==
  LET extractMap == [year |-> "%Y", month |-> "%m", day |-> "%d",
                     hour |-> "%H", minute |-> "%M", second |-> "%S"]
  IN SqlTemplate(<<"cast(strftime('", "', ", ") as integer)">>,
                 <<SqlRaw(extractMap[part]), date>>)

increment(d, column, value) ==
  CASE d = "pg" -> PgIncrement(column, value)
    [] d = "mysql" -> MySqlIncrement(column, value)
    [] d = "sqlite" -> SqliteIncrement(column, value)

decrement(d, column, value) ==
  CASE d = "pg" -> PgDecrement(column, value)
    [] d = "mysql" -> MySqlDecrement(column, value)
    [] d = "sqlite" -> SqliteDecrement(column, value)

whereIf(d, condition, clause) ==
  CASE d = "pg" -> PgWhereIf(condition, clause)
    [] d = "mysql" -> MySqlWhereIf(condition, clause)
    [] d = "sqlite" -> SqliteWhereIf(condition, clause)

extract(d, part, date) ==
  CASE d = "pg" -> PgExtract(part, date)
    [] d = "mysql" -> MySqlExtract(part, date)
    [] d = "sqlite" -> SqliteExtract(part, date)

\* the names each entry point exports: its `export function` declarations,
\* the aggregates PostgreSQL's re-exports, and the module and the service
PgExports ==
  {"DrizzleModule", "DrizzleService",
   "increment", "decrement", "whereIf", "jsonObject", "concat", "coalesce",
   "caseWhen", "nullIf", "currentDate", "currentTimestamp", "extract",
   "dateAdd", "cast", "lower", "upper", "trim", "substring", "length",
   "position", "replace", "startsWith", "endsWith", "abs", "round", "ceil",
   "floor", "mod", "power", "sqrt", "random", "arrayAgg", "jsonAgg",
   "jsonbAgg", "toJson", "toJsonb", "jsonbSet", "generateSeries",
   "stringAgg", "regexpReplace", "regexpMatches", "arrayAppend",
   "arrayRemove", "arrayContains", "arrayLength", "count", "sum", "max",
   "min", "avg", "distinct", "ifThen", "between", "inList", "withSubquery",
   "placeholder"}

MySqlExports ==
  {"DrizzleModule", "DrizzleService",
   "increment", "decrement", "whereIf", "jsonObject", "concat", "coalesce",
   "caseWhen", "nullIf", "currentDate", "currentTimestamp", "extract",
   "dateAdd", "cast", "lower", "upper", "trim", "substring", "length",
   "position", "replace", "startsWith", "endsWith", "abs", "round", "ceil",
   "floor", "mod", "power", "sqrt", "random", "arrayAgg", "jsonAgg",
   "toJson", "stringAgg", "regexpReplace", "regexpMatches", "between",
   "inList", "ifThen", "placeholder", "jsonArrayContains", "jsonExtract",
   "jsonSet", "jsonRemove", "distinct"}

SqliteExports ==
  {"DrizzleModule", "DrizzleService",
   "increment", "decrement", "whereIf", "jsonObject", "concat", "coalesce",
   "caseWhen", "nullIf", "currentDate", "currentTimestamp", "extract",
   "dateAdd", "cast", "lower", "upper", "trim", "substring", "length",
   "position", "replace", "startsWith", "endsWith", "abs", "round", "max2",
   "min2", "mod", "random", "between", "inList", "ifThen", "placeholder",
   "jsonHasPath", "jsonExtract", "distinct"}

Exports(d) ==
  CASE d = "pg" -> PgExports
    [] d = "mysql" -> MySqlExports
    [] d = "sqlite" -> SqliteExports

\* import { name } from 'nestjs-drizzle/<d>': the entry point's export of
\* that name, undefined when it has none
ImportFrom(d, name) ==
  IF name \in Exports(d) THEN [k |-> "function", d |-> d, name |-> name] ELSE Undef

\* CHANGELOG 1.1.0, "SQL utility functions for PostgreSQL and MySQL"
ChangelogFunctions ==
  {"increment", "decrement", "abs", "round", "ceil", "floor", "mod", "power",
   "sqrt", "random",
   "lower", "upper", "trim", "substring", "length", "position", "replace",
   "startsWith", "endsWith",
   "whereIf", "caseWhen", "nullIf", "ifThen", "between", "inList",
   "currentDate", "currentTimestamp", "extract", "dateAdd",
   "jsonObject", "jsonAgg", "jsonbAgg", "toJson", "toJsonb", "jsonbSet",
   "arrayAgg", "arrayAppend", "arrayRemove", "arrayContains", "arrayLength",
   "concat", "coalesce", "cast", "generateSeries", "stringAgg",
   "regexpReplace", "regexpMatches", "distinct", "withSubquery",
   "placeholder"}

\* for (const { when, then } of cases) query = sql`${query} WHEN ${when} THEN ${then} `
RECURSIVE PgCaseWhenLoop(_, _)
PgCaseWhenLoop(query, cases) ==
  IF cases = <<>> THEN query
  ELSE PgCaseWhenLoop(
         SqlTemplate(<<"", " WHEN ", " THEN ", " ">>,
                     <<query, Head(cases).when, Head(cases).then>>),
         Tail(cases))

PgCaseWhen(cases, defaultValue) ==
  LET looped == PgCaseWhenLoop(SqlTemplate(<<"CASE ">>, <<>>), cases)
      query == IF defaultValue # Undef
               THEN SqlTemplate(<<"", " ELSE ", " ">>, <<looped, defaultValue>>)
               ELSE looped
  IN SqlTemplate(<<"", " END">>, <<query>>)

\* for (const { when, then } of cases) query = sql`${query} WHEN ${when} THEN ${then}`
RECURSIVE MySqlCaseWhenLoop(_, _)
MySqlCaseWhenLoop(query, cases) ==
  IF cases = <<>> THEN query
  ELSE MySqlCaseWhenLoop(
         SqlTemplate(<<"", " WHEN ", " THEN ", "">>,
                     <<query, Head(cases).when, Head(cases).then>>),
         Tail(cases))

\* caseWhen that leaves out a default that is falsy
MySqlCaseWhenTruthyDefault(cases, defaultValue) ==
  LET looped == MySqlCaseWhenLoop(SqlTemplate(<<"CASE">>, <<>>), cases)
      query == IF ~Falsy(defaultValue)
               THEN SqlTemplate(<<"", " ELSE ", "">>, <<looped, defaultValue>>)
               ELSE looped
  IN SqlTemplate(<<"", " END">>, <<query>>)

MySqlCaseWhen(cases, defaultValue) ==
  LET looped == MySqlCaseWhenLoop(SqlTemplate(<<"CASE">>, <<>>), cases)
      query == IF defaultValue # Undef
               THEN SqlTemplate(<<"", " ELSE ", "">>, <<looped, defaultValue>>)
               ELSE looped
  IN SqlTemplate(<<"", " END">>, <<query>>)

RECURSIVE SqliteCaseWhenLoop(_, _)
SqliteCaseWhenLoop(query, cases) ==
  IF cases = <<>> THEN query
  ELSE SqliteCaseWhenLoop(
         SqlTemplate(<<"", " WHEN ", " THEN ", "">>,
                     <<query, Head(cases).when, Head(cases).then>>),
         Tail(cases))

SqliteCaseWhen(cases, defaultValue) ==
  LET looped == SqliteCaseWhenLoop(SqlTemplate(<<"CASE">>, <<>>), cases)
      query == IF defaultValue # Undef
               THEN SqlTemplate(<<"", " ELSE ", "">>, <<looped, defaultValue>>)
               ELSE looped
  IN SqlTemplate(<<"", " END">>, <<query>>)

caseWhen(d, cases, defaultValue) ==
  CASE d = "pg" -> PgCaseWhen(cases, defaultValue)
    [] d = "mysql" -> MySqlCaseWhen(cases, defaultValue)
    [] d = "sqlite" -> SqliteCaseWhen(cases, defaultValue)

\* A string that is taken apart is written as the sequence of its words and
\* blanks: '1 day' is <<"1", " ", "day">>.

\* str.split(' '): the words between the blanks, '' where two blanks meet or
\* the string is empty
RECURSIVE SplitBlank(_)
SplitBlank(str) ==
  IF str = <<>> THEN <<"">>
  ELSE IF Head(str) = " " THEN <<"">> \o SplitBlank(Tail(str))
  ELSE <<Head(str)>> \o Tail(SplitBlank(Tail(str)))

\* const [amount, unit] = parts: an element the array lacks is undefined
Element(parts, i) == IF i <= Len(parts) THEN Str(parts[i]) ELSE Undef

\* word.toLowerCase()
ToLowerCase(word) ==
  CASE word = "DAY" -> "day"
    [] word = "Days" -> "days"
    [] word = "MONTH" -> "month"
    [] word = "Years" -> "years"
    [] word = "HOUR" -> "hour"
    [] word = "Minutes" -> "minutes"
    [] word = "SECOND" -> "second"
    [] word = "WEEK" -> "week"
    [] OTHER -> word

\* the lower-case names every object literal inherits from Object.prototype
ObjectPrototypeKeys == {"constructor", "__proto__"}

\* object[key] of an object literal: its own entry, else what it inherits,
\* else undefined
Lookup(object, key) ==
  IF key \in DOMAIN object THEN Str(object[key])
  ELSE IF key \in ObjectPrototypeKeys THEN [k |-> "inherited", name |-> key]
  ELSE Undef

\* the text a raw chunk is sent as: chunk.value.join('')
RawText(x) ==
  CASE x = Undef -> ""
    [] x.k = "inherited" /\ x.name = "constructor" -> "function Object() { [native code] }"
    [] x.k = "inherited" -> "[object Object]"
    [] OTHER -> x.s

\* sql.raw(str) of a string given by its words and blanks
SqlRawString(str) == [k |-> "sql", chunks |-> [i \in 1 .. Len(str) |-> StringChunk(str[i])]]

TypeErrorOfUndefined(property) ==
  [k |-> "error", e |-> "TypeError",
   message |-> <<"Cannot read properties of undefined (reading '", property, "')">>]

UnsupportedIntervalUnit(unit) ==
  [k |-> "error", e |-> "Error",
   message |-> <<"Unsupported interval unit: ", RawText(unit)>>]

PgDateAdd(date, operator, interval) ==
  Returned(SqlTemplate(<<"", " ", " interval '", "'">>,
                       <<date, SqlRaw(operator), SqlRawString(interval)>>))

MySqlDateAdd(date, operator, interval) ==
  LET parts == SplitBlank(interval)
      amount == Element(parts, 1)
      unit == Element(parts, 2)
  IN IF operator = "+"
     THEN Returned(SqlTemplate(<<"DATE_ADD(", ", INTERVAL ", " ", ")">>,
                               <<date, SqlRaw(RawText(amount)), SqlRaw(RawText(unit))>>))
     ELSE Returned(SqlTemplate(<<"DATE_SUB(", ", INTERVAL ", " ", ")">>,
                               <<date, SqlRaw(RawText(amount)), SqlRaw(RawText(unit))>>))

\* dateAdd that looks the unit up as it was written
SqliteDateAddCaseSensitive(date, operator, interval) ==
  LET parts == SplitBlank(interval)
      amount == Element(parts, 1)
      unit == Element(parts, 2)
      unitMap == [year |-> "years", month |-> "months", day |-> "days",
                  hour |-> "hours", minute |-> "minutes", second |-> "seconds",
                  days |-> "days", months |-> "months", years |-> "years",
                  hours |-> "hours", minutes |-> "minutes", seconds |-> "seconds"]
  IN IF unit = Undef THEN Thrown(TypeErrorOfUndefined("toLowerCase"))
     ELSE LET sqliteUnit == Lookup(unitMap, unit.s)
          IN IF Falsy(sqliteUnit) THEN Thrown(UnsupportedIntervalUnit(unit))
             ELSE Returned(SqlTemplate(<<"datetime(", ", '", "", " ", "')">>,
                                       <<date, SqlRaw(operator), SqlRaw(RawText(amount)),
                                         SqlRaw(RawText(sqliteUnit))>>))

SqliteDateAdd(date, operator, interval) ==
  LET parts == SplitBlank(interval)
      amount == Element(parts, 1)
      unit == Element(parts, 2)
      unitMap == [year |-> "years", month |-> "months", day |-> "days",
                  hour |-> "hours", minute |-> "minutes", second |-> "seconds",
                  days |-> "days", months |-> "months", years |-> "years",
                  hours |-> "hours", minutes |-> "minutes", seconds |-> "seconds"]
  IN IF unit = Undef THEN Thrown(TypeErrorOfUndefined("toLowerCase"))
     ELSE LET sqliteUnit == Lookup(unitMap, ToLowerCase(unit.s))
          IN IF Falsy(sqliteUnit) THEN Thrown(UnsupportedIntervalUnit(unit))
             ELSE Returned(SqlTemplate(<<"datetime(", ", '", "", " ", "')">>,
                                       <<date, SqlRaw(operator), SqlRaw(RawText(amount)),
                                         SqlRaw(RawText(sqliteUnit))>>))

dateAdd(d, date, operator, interval) ==
  CASE d = "pg" -> PgDateAdd(date, operator, interval)
    [] d = "mysql" -> MySqlDateAdd(date, operator, interval)
    [] d = "sqlite" -> SqliteDateAdd(date, operator, interval)

PgPosition(substring, string) ==
  SqlTemplate(<<"position(", " in ", ")">>, <<substring, string>>)

MySqlPosition(substring, string) ==
  SqlTemplate(<<"LOCATE(", ", ", ")">>, <<substring, string>>)

\* position that keeps the argument order of LOCATE
SqlitePositionSubstringFirst(substring, string) ==
  SqlTemplate(<<"instr(", ", ", ")">>, <<substring, string>>)

SqlitePosition(substring, string) ==
  SqlTemplate(<<"instr(", ", ", ")">>, <<string, substring>>)

position(d, substring, string) ==
  CASE d = "pg" -> PgPosition(substring, string)
    [] d = "mysql" -> MySqlPosition(substring, string)
    [] d = "sqlite" -> SqlitePosition(substring, string)

\* the text and parameters a fragment is sent as: nested fragments spliced
\* in, empty strings dropped
RECURSIVE Flatten(_)
Flatten(chunks) ==
  IF chunks = <<>> THEN <<>>
  ELSE LET c == Head(chunks)
           first == IF c.k = "sql" THEN Flatten(c.chunks)
                    ELSE IF c = StringChunk("") THEN <<>>
                    ELSE <<c>>
       IN first \o Flatten(Tail(chunks))

\* the database evaluating SET <column> = <fragment> for a row whose column
\* holds old: column + n and column - n are SQL arithmetic
EvalSet(fragment, column, old) ==
  LET t == Flatten(fragment.chunks)
  IN IF Len(t) = 3 /\ t[1] = column /\ t[3].k = "val"
     THEN IF t[2] = StringChunk(" + ") THEN old + t[3].v
          ELSE IF t[2] = StringChunk(" - ") THEN old - t[3].v
          ELSE old
     ELSE old

\* what the database searches for, and in what, when it evaluates the
\* fragment: position(x in y) and LOCATE(x, y) look for x in y, instr(x, y)
\* looks for y in x
Searched(fragment) ==
  LET t == Flatten(fragment.chunks)
  IN IF Len(t) # 5 THEN Undef
     ELSE IF t[1] = StringChunk("position(") /\ t[3] = StringChunk(" in ") /\ t[5] = StringChunk(")")
     THEN [k |-> "search", needle |-> t[2], haystack |-> t[4]]
     ELSE IF t[1] = StringChunk("LOCATE(") /\ t[3] = StringChunk(", ") /\ t[5] = StringChunk(")")
     THEN [k |-> "search", needle |-> t[2], haystack |-> t[4]]
     ELSE IF t[1] = StringChunk("instr(") /\ t[3] = StringChunk(", ") /\ t[5] = StringChunk(")")
     THEN [k |-> "search", needle |-> t[4], haystack |-> t[2]]
     ELSE Undef

----------------------------------------------------------------------------
(* Inputs *)

Tables == {Table(t) : t \in TableNames}

\* get's select: omitted, or an object of columns of the table under some keys
GetSelects(table) ==
  {Undef} \cup {Fields(Restrict(getTableColumns(table), S)) : S \in SUBSET TableKeys(table.t)}

\* getWithout's select: omitted, or an object { key: true, ... }
WithoutSelects == {Undef} \cup {Fields([c \in S |-> TRUE]) : S \in SUBSET ColumnKeys}

RowIds == 1 .. 2
RowVals == {Row(n) : n \in RowIds}

RECURSIVE SeqsUpTo(_, _)
SeqsUpTo(S, n) ==
  IF n = 0 THEN {<<>>}
  ELSE LET shorter == SeqsUpTo(S, n - 1)
       IN shorter \cup {Append(s, x) : s \in {t \in shorter : Len(t) = n - 1}, x \in S}

RowArrays == {Rows(s) : s \in SeqsUpTo(RowVals, MaxRows)}

Queries == {Sql("SELECT"), Sql("UPDATE")}

Writes == [key : Keys, val : Vals]

\* a transaction callback: the writes it makes through the handle, then
\* whether it returns (v a value) or throws (v an error); async when it is an
\* async function.
Callbacks ==
  {[k |-> "fn", v |-> v, async |-> a, end |-> e, writes |-> ws] :
      ws \in SeqsUpTo(Writes, MaxWrites), e \in {"return"}, v \in {Val(n) : n \in Vals},
      a \in BOOLEAN}
  \cup
  {[k |-> "fn", v |-> v, async |-> a, end |-> e, writes |-> ws] :
      ws \in SeqsUpTo(Writes, MaxWrites), e \in {"throw"}, v \in {Err(x) : x \in Errors},
      a \in BOOLEAN}

NoFail == [err |-> "E1", val |-> 0, failAt |-> 0, mode |-> "fulfilled"]

\* the builder methods: no failure, or the n-th ORM call throws
BuilderEnvs(n) ==
  {NoFail} \cup {[NoFail EXCEPT !.failAt = i, !.err = e] : i \in 1 .. n, e \in Errors}

\* execute: a promise from every driver, a plain value from the synchronous
\* SQLite driver, or a throw
ExecuteEnvs(d) ==
  {[NoFail EXCEPT !.failAt = 1, !.err = e] : e \in Errors}
  \cup {[NoFail EXCEPT !.mode = "rejected", !.err = e] : e \in Errors}
  \cup {[NoFail EXCEPT !.val = v] : v \in Vals}
  \cup IF d = "sqlite" THEN {[NoFail EXCEPT !.mode = "sync", !.val = v] : v \in Vals} ELSE {}

\* transaction: an asynchronous ORM (node-postgres, mysql2, libsql) or the
\* synchronous better-sqlite3, failing before the callback runs or not
TransactionEnvs(d) ==
  {NoFail} \cup {[NoFail EXCEPT !.failAt = 1, !.err = e] : e \in Errors}
  \cup IF d = "sqlite"
       THEN {[NoFail EXCEPT !.mode = "sync"]}
            \cup {[NoFail EXCEPT !.mode = "sync", !.failAt = 1, !.err = e] : e \in Errors}
       ELSE {}

----------------------------------------------------------------------------
(* Actions: one per wrapper method *)

NoReg == [name |-> "none"]

Init ==
  /\ dialect \in Dialects
  /\ db = Db("db1")
  /\ store = [key \in Keys |-> 0]
  /\ op = [d |-> dialect, name |-> "new", args |-> <<>>]
  /\ calls = <<>>
  /\ outcome = Returned(Undef)
  /\ cbCalls = <<>>
  /\ pre = [db |-> Db("db1"), store |-> [key \in Keys |-> 0]]
  /\ reg = NoReg
  /\ loaded = {}
  /\ clients = <<>>
  /\ modOut = Returned(Undef)

\* the recording object holds no calls: the test is about to make its call
Cleared == calls = <<>> /\ cbCalls = <<>>

\* the wrapper ran to st: record what it did
Finish(name, args, st) ==
  /\ Cleared
  /\ op' = [d |-> dialect, name |-> name, args |-> args]
  /\ calls' = st.calls
  /\ outcome' = Outcome(st)
  /\ cbCalls' = st.cbCalls
  /\ store' = st.store
  /\ pre' = [db |-> db, store |-> store]
  /\ db' = st.db
  /\ UNCHANGED dialect
  /\ UNCHANGED modVars

Get ==
  \E from \in Tables :
    \E select \in GetSelects(from), env \in BuilderEnvs(2) :
      Finish("get", <<from, select>>, get(dialect, Start(db, store, env), from, select))

GetWithout ==
  \E table \in Tables, select \in WithoutSelects, env \in BuilderEnvs(2) :
    Finish("getWithout", <<table, select>>,
           getWithout(dialect, Start(db, store, env), table, select))

Update ==
  \E table \in Tables, set \in RowVals, env \in BuilderEnvs(2) :
    Finish("update", <<table, set>>, update(dialect, Start(db, store, env), table, set))

Insert ==
  \E table \in Tables, set \in RowVals, env \in BuilderEnvs(2) :
    Finish("insert", <<table, set>>, insert(dialect, Start(db, store, env), table, set))

InsertMany ==
  \E table \in Tables, values \in RowArrays, env \in BuilderEnvs(2) :
    Finish("insertMany", <<table, values>>,
           insertMany(dialect, Start(db, store, env), table, values))

Delete ==
  \E table \in Tables, env \in BuilderEnvs(1) :
    Finish("delete", <<table>>, delete(dialect, Start(db, store, env), table))

Execute ==
  \E query \in Queries, env \in ExecuteEnvs(dialect) :
    Finish("execute", <<query>>, execute(dialect, Start(db, store, env), query))

\* better-sqlite3 runs synchronous transaction functions only
Transaction ==
  \E callback \in Callbacks, env \in TransactionEnvs(dialect) :
    /\ env.mode = "sync" => ~callback.async
    /\ Finish("transaction", <<callback>>,
              transaction(dialect, Start(db, store, env), callback))

Query == Finish("query", <<>>, getQuery(dialect, Start(db, store, NoFail)))

\* service.db = another ORM object (the tests install their recording object)
SetDb ==
  \E id \in DbIds :
    /\ db # Db(id)
    /\ db' = Db(id)
    /\ op' = [d |-> dialect, name |-> "set db", args |-> <<Db(id)>>]
    /\ calls' = <<>>
    /\ outcome' = Returned(Undef)
    /\ cbCalls' = <<>>
    /\ pre' = [db |-> db, store |-> store]
    /\ UNCHANGED <<dialect, store>>
    /\ UNCHANGED modVars

----------------------------------------------------------------------------
(* forRoot: inputs and actions *)

ConnectionStrings == {Undef, Str(""), Str("opt://db")}
DatabaseUrls == {Undef, Str(""), Str("env://db")}

PgPackages == {"@neondatabase/serverless", "drizzle-orm/neon-serverless",
               "@vercel/postgres", "drizzle-orm/vercel-postgres"}
MySqlPackages == {"@planetscale/database", "drizzle-orm/planetscale-serverless"}
SqlitePackages == {"@libsql/client", "better-sqlite3"}
AuthTokens == {Undef, Str(""), Str("opt-token")}
TursoAuthTokens == {Undef, Str("env-token")}

\* process.env and node_modules: every package installed, or one missing
ModuleEnvs(packages) ==
  [missing : {"none"} \cup packages, DATABASE_URL : DatabaseUrls]

\* process.env as the SQLite module reads it
SqliteEnvs ==
  [missing : {"none"} \cup SqlitePackages, DATABASE_URL : DatabaseUrls,
   TURSO_AUTH_TOKEN : TursoAuthTokens]

Opts(name) == [k |-> "opts", name |-> name]

PostgresOptions ==
  [connectionString : ConnectionStrings,
   driver : {Undef, Str("pool"), Str("client"), Str("neon"), Str("vercel")},
   neon : {Undef},
   vercel : {Undef},
   connection : {Undef}]

Mysql2Options ==
  [connectionString : ConnectionStrings,
   driver : {Undef, Str("mysql"), Str("planetscale")},
   connection : {Undef, Opts("connection")},
   planetscale : {Undef, Opts("planetscale")},
   pool : {Undef, Opts("pool")}]

SqliteOptions ==
  [driver : {Undef, Str("sqlite"), Str("turso")},
   url : ConnectionStrings,
   authToken : AuthTokens,
   libsqlOptions : {Undef, Opts("libsqlOptions")},
   memory : {Undef, Bool(TRUE), Bool(FALSE)}]

\* forRoot is evaluated once, in the imports of the application's module
Registered(d, options, env, st) ==
  /\ reg = NoReg
  /\ reg' = [env |-> env, d |-> d, options |-> options, name |-> "forRoot"]
  /\ loaded' = st.loaded
  /\ clients' = st.clients
  /\ modOut' = MOutcome(st)
  /\ UNCHANGED svcVars

PgRegister ==
  \E options \in PostgresOptions, env \in ModuleEnvs(PgPackages) :
    Registered("pg", options, env, PgForRoot(options, env))

MySqlRegister ==
  \E options \in Mysql2Options, env \in ModuleEnvs(MySqlPackages) :
    Registered("mysql", options, env, MySqlForRoot(options, env))

SqliteRegister ==
  \E options \in SqliteOptions, env \in SqliteEnvs :
    Registered("sqlite", options, env, SqliteForRoot(options, env))

NextModule ==
  \/ PgRegister
  \/ MySqlRegister
  \/ SqliteRegister

\* registration happens once per application, before any service is used
InitModule == Init /\ dialect = "pg"

SpecModule == InitModule /\ [][NextModule]_vars

----------------------------------------------------------------------------
(* The helpers: inputs and actions *)

MaxAge == 3

AgeColumn == Column("users", "age")
DateColumns == {Column("users", "createdAt"), Column("users", "updatedAt")}

\* the amount given to increment / decrement, or none
Amounts == {Undef} \cup {Val(n) : n \in 0 .. MaxVal + 1}

Conditions == {Bool(TRUE), Bool(FALSE)}

\* sql`${users.age} > 18`, sql`active = true`
Clauses == {SqlTemplate(<<"", " > 18">>, <<AgeColumn>>), SqlTemplate(<<"active = true">>, <<>>)}

Parts(d) ==
  {"year", "month", "day", "hour", "minute", "second"}
    \cup (IF d = "pg" THEN {"epoch"} ELSE {})

\* a helper returned v; rows is what the table holds afterwards
Helped(name, args, v, rows) ==
  /\ op' = [d |-> dialect, name |-> name, args |-> args]
  /\ outcome' = Returned(v)
  /\ store' = rows
  /\ pre' = [db |-> db, store |-> store, op |-> op, before |-> pre.store]
  /\ UNCHANGED <<dialect, db, calls, cbCalls>>
  /\ UNCHANGED modVars

\* update(users, { age: increment(users.age, value) }), run by the database
Increment ==
  \E value \in Amounts :
    LET fragment == increment(dialect, AgeColumn, value)
        rows == [key \in Keys |-> EvalSet(fragment, AgeColumn, store[key])]
    IN /\ \A key \in Keys : rows[key] \in -MaxAge .. MaxAge
       /\ Helped("increment", <<AgeColumn, value>>, fragment, rows)

\* update(users, { age: decrement(users.age, value) }), run by the database
Decrement ==
  \E value \in Amounts :
    LET fragment == decrement(dialect, AgeColumn, value)
        rows == [key \in Keys |-> EvalSet(fragment, AgeColumn, store[key])]
    IN /\ \A key \in Keys : rows[key] \in -MaxAge .. MaxAge
       /\ Helped("decrement", <<AgeColumn, value>>, fragment, rows)

WhereIf ==
  \E condition \in Conditions, clause \in Clauses :
    Helped("whereIf", <<condition, clause>>, whereIf(dialect, condition, clause), store)

Extract ==
  \E part \in Parts(dialect), date \in DateColumns :
    Helped("extract", <<part, date>>, extract(dialect, part, date), store)

NextHelpers ==
  \/ Increment
  \/ Decrement
  \/ WhereIf
  \/ Extract

SpecHelpers == Init /\ [][NextHelpers]_vars

----------------------------------------------------------------------------
(* The entry points and the helpers that build a fragment from their
   arguments alone: inputs and actions *)

\* a call that touches neither the database nor the recording; what it
\* answers depends on its arguments alone, so each is made from the start
Answered(name, args, out) ==
  /\ op.name = "new"
  /\ op' = [d |-> dialect, name |-> name, args |-> args]
  /\ outcome' = out
  /\ pre' = [db |-> db, store |-> store]
  /\ UNCHANGED <<dialect, db, store, calls, cbCalls>>
  /\ UNCHANGED modVars

ImportNames == ChangelogFunctions \cup PgExports \cup MySqlExports \cup SqliteExports

\* import { name } from 'nestjs-drizzle/postgres' | '/mysql' | '/sqlite'
Import ==
  \E name \in ImportNames :
    Answered("import", <<name>>, Returned(ImportFrom(dialect, name)))

MaxCases == 2

\* { when: sql`${users.age} < 18`, then: 'Minor' },
\* { when: sql`${users.age} >= 65`, then: 'Senior' }, and a then that is a
\* fragment itself
CaseClauses ==
  {[when |-> SqlTemplate(<<"", " < 18">>, <<AgeColumn>>), then |-> Str("Minor")],
   [when |-> SqlTemplate(<<"", " >= 65">>, <<AgeColumn>>), then |-> Str("Senior")],
   [when |-> SqlTemplate(<<"active = true">>, <<>>), then |-> SqlTemplate(<<"", "">>, <<AgeColumn>>)]}

\* no default, 'Adult', and the empty string
DefaultValues == {Undef, Str("Adult"), Str("")}

CaseWhen ==
  \E cases \in SeqsUpTo(CaseClauses, MaxCases), defaultValue \in DefaultValues :
    Answered("caseWhen", <<cases, defaultValue>>,
             Returned(caseWhen(dialect, cases, defaultValue)))

\* operator: '+' | '-'
Operators == {"+", "-"}

IntervalAmounts == {"1", "2"}

\* the twelve units SQLite's dateAdd knows, some in capitals, and units it
\* does not know
IntervalUnits ==
  {"day", "days", "month", "months", "year", "years", "hour", "hours",
   "minute", "minutes", "second", "seconds",
   "DAY", "Days", "MONTH", "Years", "HOUR", "Minutes", "SECOND",
   "week", "WEEK", "fortnight", "constructor"}

\* '1 day', '2 MONTH', ...; an amount alone; the empty string; two blanks
\* between amount and unit; a word after the unit
Intervals ==
  {<<amount, " ", unit>> : amount \in IntervalAmounts, unit \in IntervalUnits}
    \cup {<<"1">>, <<>>, <<"1", " ", " ", "day">>, <<"1", " ", "day", " ", "ago">>}

DateAdd ==
  \E date \in DateColumns, operator \in Operators, interval \in Intervals :
    Answered("dateAdd", <<date, operator, interval>>,
             dateAdd(dialect, date, operator, interval))

NameColumn == Column("users", "name")

\* position('a', users.name); a column as the needle, a string as the haystack
Substrings == {Str("a"), Str("banana"), NameColumn}
Strings == {NameColumn, Str("banana"), Column("users", "email")}

Position ==
  \E substring \in Substrings, string \in Strings :
    Answered("position", <<substring, string>>,
             Returned(position(dialect, substring, string)))

NextFragments ==
  \/ Import
  \/ CaseWhen
  \/ DateAdd
  \/ Position

SpecFragments == Init /\ [][NextFragments]_vars

\* beforeEach: vi.clearAllMocks() empties the recording before the next test
ClearAllMocks ==
  /\ ~Cleared
  /\ op' = [d |-> dialect, name |-> "cleared", args |-> <<>>]
  /\ calls' = <<>>
  /\ outcome' = Returned(Undef)
  /\ cbCalls' = <<>>
  /\ pre' = [db |-> db, store |-> store]
  /\ UNCHANGED <<dialect, db, store>>
  /\ UNCHANGED modVars

Next ==
  \/ ClearAllMocks
  \/ Get
  \/ GetWithout
  \/ Update
  \/ Insert
  \/ InsertMany
  \/ Delete
  \/ Execute
  \/ Transaction
  \/ Query
  \/ SetDb

Spec == Init /\ [][Next]_vars

----------------------------------------------------------------------------
(* Properties of the wrapper methods *)

\* the error an ORM call or a wrapper call failed with: thrown, or carried by
\* a rejected promise; NoErr when it did not fail
FailureOf(out) ==
  IF out.k = "throw" THEN out.err
  ELSE IF out.v.k = "promise" /\ out.v.state = "rejected" THEN out.v.v
  ELSE NoErr

NoCallFailed == \A i \in 1 .. Len(calls) : FailureOf(calls[i].out) = NoErr

\* what a value settles to when awaited
Resolution(x) == IF x.k = "promise" THEN x.v ELSE x

\* C1: in every dialect get(from, select) calls select once on the db with
\* exactly the select argument (undefined when omitted), then from once on
\* the builder select returned with exactly the table, makes no other ORM
\* call and returns what from returned.
C1_GetForwards ==
  (op.name = "get" /\ NoCallFailed) =>
    /\ Len(calls) = 2
    /\ calls[1].on = pre.db /\ calls[1].m = "select" /\ calls[1].arg = op.args[2]
    /\ calls[2].on = calls[1].out.v /\ calls[2].m = "from" /\ calls[2].arg = op.args[1]
    /\ outcome = calls[2].out

C1_Witness ==
  /\ op.name = "get" /\ op.d = "mysql" /\ op.args[2] # Undef
  /\ Len(calls) = 2 /\ outcome.k = "return"

\* C2: in every dialect update(table, set) is db.update(table).set(set),
\* insert(table, value) is db.insert(table).values(value) and delete(table)
\* is db.delete(table): each ORM method called once with the caller's
\* arguments, the last builder returned unchanged.
C2_UpdateInsertDeleteForward ==
  /\ (op.name \in {"update", "insert"} /\ NoCallFailed) =>
       /\ Len(calls) = 2
       /\ calls[1].on = pre.db /\ calls[1].m = op.name /\ calls[1].arg = op.args[1]
       /\ calls[2].on = calls[1].out.v
       /\ calls[2].m = (IF op.name = "update" THEN "set" ELSE "values")
       /\ calls[2].arg = op.args[2]
       /\ outcome = calls[2].out
  /\ (op.name = "delete" /\ NoCallFailed) =>
       /\ Len(calls) = 1
       /\ calls[1].on = pre.db /\ calls[1].m = "delete" /\ calls[1].arg = op.args[1]
       /\ outcome = calls[1].out

C2_Witness ==
  /\ op.name = "update" /\ op.d = "sqlite" /\ Len(calls) = 2
  /\ outcome = Returned(Obj(pre.db.db, <<[m |-> "update", arg |-> op.args[1]],
                                         [m |-> "set", arg |-> op.args[2]]>>))

\* C3: insertMany(table, values) makes one db.insert(table) call and one
\* values call whose argument is the given array (same elements, order and
\* length), whatever the array's length; never one insert per element.
C3_InsertManyOnce ==
  (op.name = "insertMany" /\ NoCallFailed) =>
    /\ Len(calls) = 2
    /\ calls[1].on = pre.db /\ calls[1].m = "insert" /\ calls[1].arg = op.args[1]
    /\ calls[2].on = calls[1].out.v /\ calls[2].m = "values" /\ calls[2].arg = op.args[2]
    /\ outcome = calls[2].out

C3_Witness ==
  /\ op.name = "insertMany" /\ op.d = "pg" /\ Len(op.args[2].r) = 2
  /\ op.args[2].r[1] # op.args[2].r[2]
  /\ Len(calls) = 2 /\ calls[2].arg = op.args[2]

\* C4: getWithout(table, select) passes to db.select exactly the columns of
\* table whose key is not a key of select: no column named in select, every
\* other column of the table, and all columns when select is omitted.
C4_GetWithoutExcludes ==
  (op.name = "getWithout" /\ Len(calls) >= 1) =>
    LET table == op.args[1]
        select == op.args[2]
        named == IF select = Undef THEN {} ELSE DOMAIN select.f
        passed == calls[1].arg
    IN /\ calls[1].m = "select"
       /\ passed.k = "fields"
       /\ \A c \in named : c \notin DOMAIN passed.f
       /\ \A c \in TableKeys(table.t) \ named :
            c \in DOMAIN passed.f /\ passed.f[c] = Column(table.t, c)
       /\ DOMAIN passed.f \subseteq TableKeys(table.t)
       /\ select = Undef => DOMAIN passed.f = TableKeys(table.t)

C4_Witness ==
  /\ op.name = "getWithout" /\ op.d = "mysql"
  /\ op.args = <<Table("users"), Fields([c \in {"password"} |-> TRUE])>>
  /\ Len(calls) = 2
  /\ DOMAIN calls[1].arg.f = {"id", "username"}

\* C5: execute(query) passes the query unchanged to exactly one ORM call,
\* db.execute on PostgreSQL and MySQL and db.run on SQLite/Turso, and the
\* promise it returns resolves to the value that call produced.
C5_ExecuteForwards ==
  op.name = "execute" =>
    /\ Len(calls) = 1
    /\ calls[1].on = pre.db
    /\ calls[1].m = (IF op.d = "sqlite" THEN "run" ELSE "execute")
    /\ calls[1].arg = op.args[1]
    /\ NoCallFailed =>
         /\ outcome.k = "return"
         /\ outcome.v.k = "promise"
         /\ outcome.v.state = "fulfilled"
         /\ outcome.v.v = Resolution(calls[1].out.v)

C5_Witness ==
  /\ op.name = "execute" /\ op.d = "sqlite"
  /\ calls[1].out = Returned(Val(1))
  /\ outcome = Returned(Promise("svc", "fulfilled", Val(1)))

\* C6: transaction(callback) hands the callback to db.transaction exactly
\* once; the callback is invoked (once) with the transaction handle the ORM
\* supplies, and the promise transaction returns resolves to the callback's
\* return value, on SQLite both for a plain value and for a promise.
C6_TransactionForwards ==
  op.name = "transaction" =>
    /\ Len(calls) = 1
    /\ calls[1].on = pre.db /\ calls[1].m = "transaction" /\ calls[1].arg = op.args[1]
    /\ cbCalls \in {<<>>, <<Tx(pre.db)>>}
    /\ NoCallFailed =>
         /\ cbCalls = <<Tx(pre.db)>>
         /\ outcome.k = "return"
         /\ outcome.v.k = "promise"
         /\ outcome.v.state = "fulfilled"
         /\ outcome.v.v = op.args[1].v

C6_Witness ==
  /\ op.name = "transaction" /\ op.d = "sqlite" /\ ~op.args[1].async
  /\ calls[1].out = Returned(Val(1))
  /\ cbCalls = <<Tx(pre.db)>>
  /\ outcome = Returned(Promise("svc", "fulfilled", Val(1)))

\* C7: when the callback given to transaction throws after writing through
\* the transaction handle, the caller of transaction gets that error and the
\* data read afterwards equals the data before the transaction.
C7_RollbackOnThrow ==
  (op.name = "transaction" /\ cbCalls # <<>> /\ op.args[1].end = "throw") =>
    /\ FailureOf(outcome) = op.args[1].v
    /\ store = pre.store

C7_Witness ==
  /\ op.name = "transaction" /\ op.d = "pg" /\ op.args[1].end = "throw"
  /\ cbCalls = <<Tx(pre.db)>>
  /\ \E i \in 1 .. Len(op.args[1].writes) :
       op.args[1].writes[i].val # pre.store[op.args[1].writes[i].key]
  /\ store = pre.store
  /\ outcome = Returned(Promise("orm", "rejected", op.args[1].v))

\* C8: when the ORM call made by a wrapper fails, the wrapper fails with the
\* same error, the failed call was made once and nothing was called after it
\* (no retry, no recovery), and the service's db field is unchanged.
C8_FailurePropagates ==
  \A i \in 1 .. Len(calls) :
    FailureOf(calls[i].out) # NoErr =>
      /\ i = Len(calls)
      /\ Cardinality({j \in 1 .. Len(calls) :
                        calls[j].m = calls[i].m /\ calls[j].arg = calls[i].arg}) = 1
      /\ FailureOf(outcome) = FailureOf(calls[i].out)
      /\ db = pre.db

C8_Witness ==
  /\ op.name = "execute" /\ op.d = "mysql"
  /\ Len(calls) = 1
  /\ calls[1].out = Returned(Promise("orm", "rejected", Err("E2")))
  /\ outcome = calls[1].out
  /\ db = pre.db

\* C17: every ORM call a wrapper makes, and the handle a transaction
\* callback gets, belong to the object service.db holds when the wrapper is
\* called (after an assignment: the new object, never the previous one); the
\* query getter returns the query object of that db, itself and not a copy;
\* no wrapper assigns service.db.
C17_CallsFollowDb ==
  op.name \notin {"new", "cleared", "set db"} =>
    /\ db = pre.db
    /\ \A i \in 1 .. Len(calls) : calls[i].on.db = db.db
    /\ Len(calls) >= 1 => calls[1].on = db
    /\ \A i \in 1 .. Len(cbCalls) : cbCalls[i] = Tx(db)
    /\ op.name = "query" => (outcome = Returned(QueryOf(db)) /\ calls = <<>>)

C17_Witness ==
  /\ db = Db("db2")
  /\ op.name = "query" /\ op.d = "mysql"
  /\ outcome = Returned(QueryOf(Db("db2")))
  /\ outcome # Returned(QueryOf(Db("db1")))

----------------------------------------------------------------------------
(* Properties of the helpers *)

\* the amount an increment or decrement was called with: 1 when omitted
AmountOf(o) == IF o.args[2] = Undef THEN 1 ELSE o.args[2].v

\* C18: in every dialect whereIf(condition, clause) returns the clause it
\* was given, itself, when condition is true and undefined when condition
\* is false; it builds no fragment of its own.
C18_WhereIfPassesClause ==
  op.name = "whereIf" =>
    outcome = Returned(IF op.args[1] = Bool(TRUE) THEN op.args[2] ELSE Undef)

C18_Witness ==
  /\ op.name = "whereIf" /\ op.d = "sqlite"
  /\ op.args[1] = Bool(TRUE)
  /\ outcome = Returned(SqlTemplate(<<"", " > 18">>, <<AgeColumn>>))

\* C19: in every dialect an update with increment(column, a) leaves the
\* column at its old value + a and one with decrement(column, b) at its old
\* value - b, a and b being 1 when omitted; after an increment by a followed
\* by a decrement by b the column holds its initial value + a - b.
C19_IncrementDecrement ==
  \A key \in Keys :
    /\ op.name = "increment" => store[key] = pre.store[key] + AmountOf(op)
    /\ op.name = "decrement" => store[key] = pre.store[key] - AmountOf(op)
    /\ (op.name = "decrement" /\ pre.op.name = "increment") =>
         store[key] = pre.before[key] + AmountOf(pre.op) - AmountOf(op)

C19_Witness ==
  /\ op.name = "decrement" /\ op.d = "mysql" /\ op.args[2] = Undef
  /\ pre.op.name = "increment" /\ pre.op.args[2] = Val(2)
  /\ \A key \in Keys : pre.before[key] = 0 /\ pre.store[key] = 2 /\ store[key] = 1

ExtractTokens == Flatten(outcome.v.chunks)

UpperPart ==
  [year |-> "YEAR", month |-> "MONTH", day |-> "DAY",
   hour |-> "HOUR", minute |-> "MINUTE", second |-> "SECOND"]

PartFunction ==
  [year |-> "YEAR(", month |-> "MONTH(", day |-> "DAY(",
   hour |-> "HOUR(", minute |-> "MINUTE(", second |-> "SECOND("]

StrftimeCode ==
  [year |-> "%Y", month |-> "%m", day |-> "%d",
   hour |-> "%H", minute |-> "%M", second |-> "%S"]

CommonParts == {"year", "month", "day", "hour", "minute", "second"}

\* EXTRACT(<PART> FROM x), in either letter case
ExtractFromForm(t, part, date) ==
  /\ Len(t) = 5
  /\ t[1] \in {StringChunk("extract("), StringChunk("EXTRACT(")}
  /\ t[2] \in {StringChunk(part), StringChunk(UpperPart[part])}
  /\ t[3] \in {StringChunk(" from "), StringChunk(" FROM ")}
  /\ t[4] = date
  /\ t[5] = StringChunk(")")

\* strftime('%Y', x), possibly inside a cast
StrftimeForm(t, part, date) ==
  \E i \in 1 .. Len(t) - 3 :
    /\ t[i] \in {StringChunk("strftime('"), StringChunk("cast(strftime('")}
    /\ t[i + 1] = StringChunk(StrftimeCode[part])
    /\ t[i + 2] = StringChunk("', ")
    /\ t[i + 3] = date

\* YEAR(x)
FunctionForm(t, part, date) ==
  t = <<StringChunk(PartFunction[part]), date, StringChunk(")")>>

\* C20 as stated: extract(part, x) emits the EXTRACT(<PART> FROM x) form for
\* PostgreSQL, the strftime('<code>', x) form for SQLite and the <PART>(x)
\* function form for MySQL, for year, month, day, hour, minute and second.
C20_Original ==
  (op.name = "extract" /\ op.args[1] \in CommonParts) =>
    CASE op.d = "pg" -> ExtractFromForm(ExtractTokens, op.args[1], op.args[2])
      [] op.d = "sqlite" -> StrftimeForm(ExtractTokens, op.args[1], op.args[2])
      [] op.d = "mysql" -> FunctionForm(ExtractTokens, op.args[1], op.args[2])

\* C20 amended: extract(part, x) emits extract(<part> from x) for PostgreSQL,
\* cast(strftime('<code>', x) as integer) for SQLite and, for MySQL,
\* EXTRACT(<PART> FROM x) with the part in upper case: the same EXTRACT form
\* as PostgreSQL, never <PART>(x); likewise for each of year, month, day,
\* hour, minute and second.
C20_ExtractPerDialect ==
  (op.name = "extract" /\ op.args[1] \in CommonParts) =>
    LET part == op.args[1]
        date == op.args[2]
    IN CASE op.d = "pg" ->
              ExtractTokens = <<StringChunk("extract("), StringChunk(part),
                                StringChunk(" from "), date, StringChunk(")")>>
         [] op.d = "sqlite" ->
              ExtractTokens = <<StringChunk("cast(strftime('"), StringChunk(StrftimeCode[part]),
                                StringChunk("', "), date, StringChunk(") as integer)")>>
         [] op.d = "mysql" ->
              /\ ExtractTokens = <<StringChunk("EXTRACT("), StringChunk(UpperPart[part]),
                                   StringChunk(" FROM "), date, StringChunk(")")>>
              /\ ~FunctionForm(ExtractTokens, part, date)

C20_Witness ==
  /\ op.name = "extract" /\ op.d = "mysql" /\ op.args[1] = "year"
  /\ ExtractTokens = <<StringChunk("EXTRACT("), StringChunk("YEAR"), StringChunk(" FROM "),
                       op.args[2], StringChunk(")")>>

----------------------------------------------------------------------------
(* Properties of DrizzleModule.forRoot *)

ConnectionRequired == Thrown(Err(MsgConnectionRequired))

\* C9: PostgreSQL forRoot, for every driver value (pool, client, neon,
\* vercel or omitted), throws 'Database connection string is required...'
\* from the forRoot call when options.connectionString is absent or empty
\* and DATABASE_URL is unset; no driver package is loaded, no pool or client
\* is created and no module is returned.
C9_PgRequiresConnectionString ==
  (/\ reg.name = "forRoot" /\ reg.d = "pg"
   /\ Falsy(reg.options.connectionString)
   /\ reg.env.DATABASE_URL = Undef) =>
    /\ modOut = ConnectionRequired
    /\ loaded = {}
    /\ clients = <<>>

C9_Witness ==
  /\ reg.name = "forRoot" /\ reg.d = "pg"
  /\ reg.options.driver = Str("neon")
  /\ reg.options.connectionString = Str("")
  /\ reg.env.DATABASE_URL = Undef /\ reg.env.missing = "none"
  /\ modOut = ConnectionRequired
  /\ loaded = {}

NoMySqlConnectionInfo ==
  /\ reg.name = "forRoot" /\ reg.d = "mysql"
  /\ reg.options.connectionString = Undef
  /\ reg.env.DATABASE_URL = Undef
  /\ reg.options.pool = Undef
  /\ reg.options.connection = Undef

\* C10 as stated: MySQL forRoot throws 'Database connection string is
\* required...' whenever no connection string is available and neither pool
\* nor connection options are given, for the 'mysql' driver and for the
\* 'planetscale' driver alike, and creates no client.
C10_Original ==
  NoMySqlConnectionInfo =>
    /\ modOut = ConnectionRequired
    /\ clients = <<>>

\* C10 amended: with no connection string and neither pool nor connection
\* options, MySQL forRoot with the 'mysql' driver (or none) throws 'Database
\* connection string is required...' and creates no client; with the
\* 'planetscale' driver it never throws that error: once the PlanetScale
\* packages are loaded it calls connect with url undefined and returns a
\* module.
C10_MySqlRequiresConnectionString ==
  NoMySqlConnectionInfo =>
    IF reg.options.driver # Str("planetscale")
    THEN /\ modOut = ConnectionRequired
         /\ clients = <<>>
    ELSE /\ modOut # ConnectionRequired
         /\ reg.env.missing = "none" =>
              /\ modOut.k = "return"
              /\ clients = <<[arg |-> [url |-> Undef, opts |-> reg.options.planetscale],
                              kind |-> "planetscale.connect"]>>

C10_Witness ==
  /\ NoMySqlConnectionInfo
  /\ reg.options.driver = Undef
  /\ modOut = ConnectionRequired
  /\ clients = <<>>

----------------------------------------------------------------------------
(* Properties of the configuration forRoot hands to the drivers *)

IsForRoot(d) == reg.name = "forRoot" /\ reg.d = d

\* the driver forRoot selects: options.driver, or the dialect's default
DriverOf ==
  IF reg.options.driver # Undef THEN reg.options.driver
  ELSE CASE reg.d = "pg" -> Str("pool")
         [] reg.d = "mysql" -> Str("mysql")
         [] reg.d = "sqlite" -> Str("sqlite")

\* the connection string (url for SQLite) given in the options
OptionUrl == IF reg.d = "sqlite" THEN reg.options.url ELSE reg.options.connectionString

NonEmptyString(x) == x # Undef /\ x.k = "str" /\ x # Str("")

\* the value the configuration designates: the option when it is a non-empty
\* string, DATABASE_URL otherwise
DesignatedUrl == IF NonEmptyString(OptionUrl) THEN OptionUrl ELSE reg.env.DATABASE_URL

NoUrlAvailable == ~NonEmptyString(OptionUrl) /\ ~NonEmptyString(reg.env.DATABASE_URL)

\* whether client c was opened with a connection string or url of its own
\* (not a mysql2 option bag, not the in-memory database)
TakesUrl(c) ==
  CASE c.kind \in {"mysql.createPool"} -> FALSE
    [] c.kind = "mysql.createConnection" -> reg.options.connection = Undef
    [] c.kind = "BetterSQLite3" -> reg.options.memory \in {Undef, Bool(FALSE)}
    [] OTHER -> TRUE

\* the connection string or url client c was opened with
UrlUsed(c) ==
  CASE c.kind \in {"neon", "planetscale.connect", "libsql.createClient"} -> c.arg.url
    [] c.kind \in {"vercel.createPool", "pg.Pool"} -> c.arg.connectionString
    [] c.kind = "mysql.createConnection" -> c.arg.uri
    [] c.kind = "BetterSQLite3" -> c.arg

\* C11: the connection string (PostgreSQL, MySQL) or url (SQLite) a client
\* is opened with is the value given in the options whenever that value is a
\* non-empty string and the value of DATABASE_URL otherwise; DATABASE_URL
\* never replaces a value supplied in the options.
C11_OptionBeforeDatabaseUrl ==
  reg.name = "forRoot" =>
    \A i \in 1 .. Len(clients) :
      TakesUrl(clients[i]) => UrlUsed(clients[i]) = DesignatedUrl

C11_Witness ==
  /\ IsForRoot("sqlite")
  /\ reg.options.url = Str("opt://db") /\ reg.env.DATABASE_URL = Str("env://db")
  /\ reg.options.memory = Undef /\ reg.options.driver = Undef
  /\ Len(clients) = 1 /\ clients[1].kind = "BetterSQLite3"
  /\ clients[1].arg = Str("opt://db")

MemoryRequested ==
  /\ IsForRoot("sqlite")
  /\ DriverOf = Str("sqlite")
  /\ reg.options.memory = Bool(TRUE)
  /\ reg.env.missing = "none"

\* C12 as stated: SQLite forRoot({ schema, memory: true }) with the default
\* 'sqlite' driver opens the ':memory:' database and returns a module
\* whether or not a url option or DATABASE_URL is present, and never uses
\* the url as the database file path.
C12_Original ==
  MemoryRequested =>
    /\ modOut.k = "return"
    /\ Len(clients) = 1 /\ clients[1].kind = "BetterSQLite3"
    /\ clients[1].arg = Str(":memory:")

\* C12, what the code does: with memory true the ':memory:' database is
\* opened and a module returned only when options.url or DATABASE_URL is
\* set; when neither is, forRoot throws 'Database URL is required...' and
\* opens nothing. The url is never the path of an in-memory database.
C12_MemoryStillNeedsUrl ==
  MemoryRequested =>
    IF NoUrlAvailable
    THEN modOut = Thrown(Err(MsgUrlRequired)) /\ clients = <<>>
    ELSE /\ modOut.k = "return"
         /\ Len(clients) = 1 /\ clients[1].kind = "BetterSQLite3"
         /\ clients[1].arg = Str(":memory:")

C12_Witness ==
  /\ MemoryRequested
  /\ reg.options.url = Undef /\ reg.env.DATABASE_URL = Undef
  /\ modOut = Thrown(Err(MsgUrlRequired))
  /\ clients = <<>>

NoTursoToken == Falsy(reg.options.authToken) /\ Falsy(reg.env.TURSO_AUTH_TOKEN)

\* the token the configuration designates: options.authToken when given,
\* TURSO_AUTH_TOKEN only when it is not
DesignatedToken ==
  IF NonEmptyString(reg.options.authToken) THEN reg.options.authToken
  ELSE reg.env.TURSO_AUTH_TOKEN

TursoTokenRule ==
  \A i \in 1 .. Len(clients) :
    /\ clients[i].kind = "libsql.createClient"
    /\ clients[i].arg.authToken = DesignatedToken

\* C13 as stated: with driver 'turso', forRoot throws 'Turso auth token is
\* required...' and creates no client when options.authToken is absent and
\* TURSO_AUTH_TOKEN is unset; otherwise a client it creates gets
\* options.authToken when given and TURSO_AUTH_TOKEN only when not.
C13_Original ==
  (IsForRoot("sqlite") /\ DriverOf = Str("turso")) =>
    IF NoTursoToken
    THEN modOut = Thrown(Err(MsgTursoTokenRequired)) /\ clients = <<>>
    ELSE TursoTokenRule

\* C13 amended: with driver 'turso' and a url available (options.url or
\* DATABASE_URL), forRoot throws 'Turso auth token is required...' and
\* creates no client when options.authToken is absent and TURSO_AUTH_TOKEN
\* is unset; with no url available it throws 'Database URL is required...'
\* whatever the token; a client it creates gets options.authToken when
\* given and TURSO_AUTH_TOKEN only when not.
C13_TursoTokenRequired ==
  (IsForRoot("sqlite") /\ DriverOf = Str("turso")) =>
    IF NoUrlAvailable
    THEN modOut = Thrown(Err(MsgUrlRequired)) /\ clients = <<>>
    ELSE IF NoTursoToken
    THEN modOut = Thrown(Err(MsgTursoTokenRequired)) /\ clients = <<>>
    ELSE /\ TursoTokenRule
         /\ reg.env.missing # "@libsql/client" => Len(clients) = 1 /\ modOut.k = "return"

C13_Witness ==
  /\ IsForRoot("sqlite") /\ DriverOf = Str("turso")
  /\ reg.options.url = Str("opt://db")
  /\ reg.options.authToken = Undef /\ reg.env.TURSO_AUTH_TOKEN = Undef
  /\ reg.env.missing = "none"
  /\ modOut = Thrown(Err(MsgTursoTokenRequired))
  /\ clients = <<>>

\* the packages the selected driver loads when forRoot is called
PackagesOfDriver ==
  CASE reg.d = "pg" /\ DriverOf = Str("neon") ->
         {"@neondatabase/serverless", "drizzle-orm/neon-serverless"}
    [] reg.d = "pg" /\ DriverOf = Str("vercel") ->
         {"@vercel/postgres", "drizzle-orm/vercel-postgres"}
    [] reg.d = "mysql" /\ DriverOf = Str("planetscale") ->
         {"@planetscale/database", "drizzle-orm/planetscale-serverless"}
    [] reg.d = "sqlite" /\ DriverOf = Str("turso") -> {"@libsql/client"}
    [] reg.d = "sqlite" /\ DriverOf # Str("turso") -> {"better-sqlite3"}
    [] OTHER -> {}

\* the configuration lets forRoot get as far as loading the driver
ReachesDriver ==
  CASE reg.d = "pg" -> ~NoUrlAvailable
    [] reg.d = "mysql" -> TRUE
    [] reg.d = "sqlite" -> ~NoUrlAvailable /\ (DriverOf = Str("turso") => ~NoTursoToken)

\* the packages the message of an error names
RECURSIVE PackagesNamed(_)
PackagesNamed(err) ==
  (IF "pkg" \in DOMAIN err THEN {err.pkg} ELSE {})
    \cup (IF "cause" \in DOMAIN err /\ err.cause # Undef
          THEN PackagesNamed(err.cause) ELSE {})

\* C14: for every optional driver (neon, vercel, planetscale, turso,
\* better-sqlite3), when loading a package of the driver fails, forRoot
\* throws an error whose message names that package, creates no client and
\* returns no module.
C14_MissingPackageNamed ==
  (/\ reg.name = "forRoot"
   /\ reg.env.missing \in PackagesOfDriver
   /\ ReachesDriver) =>
    /\ modOut.k = "throw"
    /\ reg.env.missing \in PackagesNamed(modOut.err)
    /\ clients = <<>>

C14_Witness ==
  /\ IsForRoot("sqlite") /\ DriverOf = Str("turso")
  /\ reg.env.missing = "@libsql/client"
  /\ modOut.k = "throw"
  /\ "cause" \in DOMAIN modOut.err
  /\ modOut.err.pkg = "@libsql/client"
  /\ clients = <<>>

MySqlStandard == IsForRoot("mysql") /\ DriverOf # Str("planetscale")

\* the one client the standard MySQL driver is specified to create
MySqlClientSpecified ==
  IF reg.options.pool # Undef
  THEN [arg |-> reg.options.pool, kind |-> "mysql.createPool"]
  ELSE IF reg.options.connection # Undef
  THEN [arg |-> reg.options.connection, kind |-> "mysql.createConnection"]
  ELSE [arg |-> [uri |-> DesignatedUrl], kind |-> "mysql.createConnection"]

\* C15 as stated: MySQL forRoot with the standard driver creates exactly one
\* client per call: a pool given exactly options.pool when that is supplied,
\* otherwise a connection given exactly options.connection when supplied
\* and { uri: connectionString or DATABASE_URL } when not.
C15_Original ==
  MySqlStandard => clients = <<MySqlClientSpecified>>

\* C15 amended: as stated, except that when neither pool nor connection is
\* supplied and no connection string is available (options.connectionString
\* and DATABASE_URL both absent or empty) forRoot throws 'Database connection
\* string is required...' and creates no client. With pool or connection
\* supplied the connection string and DATABASE_URL are not consulted: the
\* call succeeds without them.
C15_MySqlOneClient ==
  MySqlStandard =>
    IF reg.options.pool = Undef /\ reg.options.connection = Undef /\ NoUrlAvailable
    THEN modOut = ConnectionRequired /\ clients = <<>>
    ELSE modOut.k = "return" /\ clients = <<MySqlClientSpecified>>

C15_Witness ==
  /\ MySqlStandard
  /\ reg.options.pool = Opts("pool") /\ reg.options.connection = Opts("connection")
  /\ reg.options.connectionString = Undef /\ reg.env.DATABASE_URL = Undef
  /\ modOut.k = "return"
  /\ Len(clients) = 1 /\ clients[1].kind = "mysql.createPool"
  /\ clients[1].arg = Opts("pool")

\* C16 as stated: with driver 'client' PostgreSQL forRoot connects through
\* a single node-postgres client rather than a pool, while driver 'pool'
\* (the default) connects through a node-postgres Pool.
C16_Original ==
  (IsForRoot("pg") /\ modOut.k = "return" /\ DriverOf \in {Str("client"), Str("pool")}) =>
    /\ Len(clients) = 1
    /\ clients[1].kind = (IF DriverOf = Str("client") THEN "pg.Client" ELSE "pg.Pool")

\* C16, what the code does: with driver 'client' forRoot creates a
\* node-postgres Pool, exactly as with driver 'pool'.
C16_ClientDriverUsesPool ==
  (IsForRoot("pg") /\ modOut.k = "return" /\ DriverOf \in {Str("client"), Str("pool")}) =>
    /\ Len(clients) = 1
    /\ clients[1].kind = "pg.Pool"

C16_Witness ==
  /\ IsForRoot("pg") /\ reg.options.driver = Str("client")
  /\ modOut.k = "return"
  /\ Len(clients) = 1 /\ clients[1].kind = "pg.Pool"

----------------------------------------------------------------------------
(* C21 .. C24: the entry points and the fragment builders *)

\* the functions of the 1.1.0 list that only the PostgreSQL entry point has
OnlyInPostgres ==
  {"jsonbAgg", "toJsonb", "jsonbSet", "arrayAppend", "arrayRemove",
   "arrayContains", "arrayLength", "generateSeries", "withSubquery"}

ImportedListed(d) ==
  op.name = "import" /\ op.d = d /\ op.args[1] \in ChangelogFunctions

\* C21 as stated: every function of the 1.1.0 changelog list is exported by
\* the PostgreSQL entry point and by the MySQL entry point.
C21_Original ==
  (ImportedListed("pg") \/ ImportedListed("mysql")) => outcome.v # Undef

\* C21: the PostgreSQL entry point exports every function of the 1.1.0
\* changelog list; the MySQL entry point exports every one of them except
\* jsonbAgg, toJsonb, jsonbSet, arrayAppend, arrayRemove, arrayContains,
\* arrayLength, generateSeries and withSubquery, which it does not have.
C21_MySqlLacksPostgresOnly ==
  /\ ImportedListed("pg") => outcome.v # Undef
  /\ ImportedListed("mysql") => (outcome.v = Undef <=> op.args[1] \in OnlyInPostgres)

C21_Witness ==
  /\ ImportedListed("mysql") /\ op.args[1] = "withSubquery"
  /\ outcome = Returned(Undef)

\* the keyword a chunk of helper text spells, blanks around it aside
KeywordOf(s) ==
  CASE s \in {"CASE", "CASE "} -> "CASE"
    [] s = " WHEN " -> "WHEN"
    [] s = " THEN " -> "THEN"
    [] s = " ELSE " -> "ELSE"
    [] s = " END" -> "END"
    [] OTHER -> s

\* the fragment as sent, read keyword by keyword: chunks of blanks dropped
RECURSIVE Keywords(_)
Keywords(t) ==
  IF t = <<>> THEN <<>>
  ELSE LET c == Head(t)
           first == IF c = StringChunk(" ") THEN <<>>
                    ELSE IF c.k = "text" THEN <<StringChunk(KeywordOf(c.s))>>
                    ELSE <<c>>
       IN first \o Keywords(Tail(t))

\* WHEN <when> THEN <then>, once per element, in the order given
RECURSIVE WhenThenClauses(_)
WhenThenClauses(cases) ==
  IF cases = <<>> THEN <<>>
  ELSE <<StringChunk("WHEN")>> \o Flatten(<<Head(cases).when>>)
         \o <<StringChunk("THEN")>> \o Flatten(<<Head(cases).then>>)
         \o WhenThenClauses(Tail(cases))

CaseExpression(cases, defaultValue) ==
  <<StringChunk("CASE")>> \o WhenThenClauses(cases)
    \o (IF defaultValue # Undef
        THEN <<StringChunk("ELSE")>> \o Flatten(<<defaultValue>>)
        ELSE <<>>)
    \o <<StringChunk("END")>>

CountOf(t, c) == Cardinality({i \in 1 .. Len(t) : t[i] = c})

\* C22: in each of the three dialects caseWhen(cases, defaultValue) sends
\* CASE, then WHEN <when> THEN <then> once per element of cases in input
\* order, then ELSE <defaultValue> exactly when defaultValue is not
\* undefined, then END; there are as many WHEN as cases.
C22_CaseWhenClauses ==
  op.name = "caseWhen" =>
    /\ outcome.k = "return"
    /\ LET sent == Keywords(Flatten(outcome.v.chunks))
       IN /\ sent = CaseExpression(op.args[1], op.args[2])
          /\ CountOf(sent, StringChunk("WHEN")) = Len(op.args[1])
          /\ CountOf(sent, StringChunk("ELSE")) = (IF op.args[2] = Undef THEN 0 ELSE 1)
          /\ sent[1] = StringChunk("CASE") /\ sent[Len(sent)] = StringChunk("END")

C22_Witness ==
  /\ op.name = "caseWhen" /\ op.d = "pg"
  /\ Len(op.args[1]) = 2 /\ op.args[1][1] # op.args[1][2]
  /\ op.args[2] = Str("")
  /\ CountOf(Keywords(Flatten(outcome.v.chunks)), StringChunk("WHEN")) = 2
  /\ CountOf(Keywords(Flatten(outcome.v.chunks)), StringChunk("ELSE")) = 1

\* the units SQLite's dateAdd accepts, in any of their spellings, with the
\* plural SQLite is given
PluralOf(unit) ==
  CASE unit \in {"day", "days", "DAY", "Days"} -> "days"
    [] unit \in {"month", "months", "MONTH"} -> "months"
    [] unit \in {"year", "years", "Years"} -> "years"
    [] unit \in {"hour", "hours", "HOUR"} -> "hours"
    [] unit \in {"minute", "minutes", "Minutes"} -> "minutes"
    [] unit \in {"second", "seconds", "SECOND"} -> "seconds"
    [] OTHER -> "none"

SqliteDateAddCalled == op.name = "dateAdd" /\ op.d = "sqlite"

\* the unit part of the interval given: its second word, if it has one
HasUnitPart == Len(op.args[3]) >= 3 /\ op.args[3][2] = " " /\ op.args[3][3] # " "
UnitPart == op.args[3][3]

\* datetime(<date>, '<operator><amount> <plural unit>')
DatetimeFragment(date, operator, amount, plural) ==
  <<StringChunk("datetime("), date, StringChunk(", '"), StringChunk(operator),
    StringChunk(amount), StringChunk(" "), StringChunk(plural), StringChunk("')")>>

ThrewUnsupportedUnit ==
  /\ outcome.k = "throw" /\ outcome.err.e = "Error"
  /\ outcome.err.message[1] = "Unsupported interval unit: "

ReturnedDatetime ==
  /\ outcome.k = "return"
  /\ Flatten(outcome.v.chunks)
       = DatetimeFragment(op.args[1], op.args[2], op.args[3][1], PluralOf(UnitPart))

\* C23 as stated: SQLite's dateAdd throws 'Unsupported interval unit: <unit>'
\* for every interval whose unit is none of the twelve, an interval without
\* a unit part included, and returns datetime(date, '<operator><amount>
\* <plural unit>') for every other.
C23_Original ==
  SqliteDateAddCalled =>
    IF HasUnitPart /\ PluralOf(UnitPart) # "none"
    THEN ReturnedDatetime
    ELSE ThrewUnsupportedUnit

\* C23: SQLite's dateAdd returns datetime(date, '<operator><amount> <plural
\* unit>') when the word after the first blank is one of the twelve units in
\* any case, the same fragment for singular and plural; it throws
\* 'Unsupported interval unit: <unit>' for another word, the empty word of a
\* double blank included, unless that word names a property every object
\* inherits ('constructor'), which is sent as the unit; an interval without a
\* blank fails with a TypeError of unit.toLowerCase().
C23_DateAddUnits ==
  SqliteDateAddCalled =>
    LET words == SplitBlank(op.args[3])
    IN IF Len(words) < 2
       THEN outcome = Thrown(TypeErrorOfUndefined("toLowerCase"))
       ELSE IF PluralOf(words[2]) # "none"
       THEN /\ outcome.k = "return"
            /\ Flatten(outcome.v.chunks)
                 = DatetimeFragment(op.args[1], op.args[2], words[1], PluralOf(words[2]))
       ELSE IF words[2] \in ObjectPrototypeKeys
       THEN outcome.k = "return"
       ELSE /\ ThrewUnsupportedUnit
            /\ outcome.err.message[2] = words[2]

C23_Witness ==
  /\ SqliteDateAddCalled /\ op.args[3] = <<"1">>
  /\ outcome.k = "throw" /\ outcome.err.e = "TypeError"

\* C24: in every dialect the fragment position(substring, string) returns
\* makes the database search for substring inside string, so the three
\* dialects search for the same thing in the same thing: position(<substring>
\* in <string>), LOCATE(<substring>, <string>), instr(<string>, <substring>).
C24_PositionSlots ==
  op.name = "position" =>
    /\ outcome.k = "return"
    /\ Searched(outcome.v) = [k |-> "search", needle |-> op.args[1], haystack |-> op.args[2]]
    /\ Flatten(outcome.v.chunks)[1]
         = (CASE op.d = "pg" -> StringChunk("position(")
              [] op.d = "mysql" -> StringChunk("LOCATE(")
              [] op.d = "sqlite" -> StringChunk("instr("))

C24_Witness ==
  /\ op.name = "position" /\ op.d = "sqlite"
  /\ op.args = <<Str("a"), NameColumn>>
  /\ Searched(outcome.v).needle = Str("a")
  /\ Flatten(outcome.v.chunks)[2] = NameColumn

----------------------------------------------------------------------------
(* C25: failures of SQLite's execute and transaction *)

SqlitePromiseMethod == op.d = "sqlite" /\ op.name \in {"execute", "transaction"}

\* C25 as stated: SQLite's execute and transaction always return a promise
\* and never throw; a failure of db.run or db.transaction, a callback that
\* throws inside a synchronous transaction included, rejects that promise.
C25_Original ==
  SqlitePromiseMethod =>
    /\ outcome.k = "return" /\ outcome.v.k = "promise"
    /\ \A i \in 1 .. Len(calls) :
         FailureOf(calls[i].out) # NoErr =>
           outcome.v.state = "rejected" /\ outcome.v.v = FailureOf(calls[i].out)

\* C25: SQLite's execute and transaction return a promise whenever db.run or
\* db.transaction returns: the promise it returned, rejected ones included,
\* or a promise fulfilled with the plain value it returned. When db.run or
\* db.transaction throws, as better-sqlite3 does for a failing statement and
\* for a callback that throws, the method throws that error to its caller and
\* returns no promise.
C25_SqliteThrowEscapes ==
  SqlitePromiseMethod =>
    /\ Len(calls) = 1
    /\ IF calls[1].out.k = "throw"
       THEN outcome = Thrown(calls[1].out.err)
       ELSE /\ outcome.k = "return" /\ outcome.v.k = "promise"
            /\ IF calls[1].out.v.k = "promise"
               THEN outcome.v = calls[1].out.v
               ELSE outcome.v.state = "fulfilled" /\ outcome.v.v = calls[1].out.v

C25_Witness ==
  /\ SqlitePromiseMethod /\ op.name = "transaction"
  /\ op.args[1].end = "throw" /\ ~op.args[1].async
  /\ cbCalls # <<>>
  /\ outcome = Thrown(op.args[1].v)

====
